---- MODULE Spec2Model ----
(***************************************************************************)
(* blueteeth: a command-line front end to bluetoothctl and wpctl.          *)
(* The model follows src/blueteeth.py: the persisted config, the in-memory *)
(* config of one command invocation, and the control position inside       *)
(* connect_device, pair_new_device, remove_device_interactive and          *)
(* enhanced_fix.  What the external programs print is an input chosen      *)
(* from bounded sets of transcripts.                                       *)
(***************************************************************************)
EXTENDS Integers, Sequences, FiniteSets, TLC

(* ------------------------------ bounds -------------------------------- *)
\* number of distinct device addresses
NumMacs == 2
\* lines of standard output of one "connect" invocation
MaxLines == 2
\* lines of standard output of one "pair" invocation
MaxPairLines == 2
\* lines of standard output of one "info" invocation
MaxInfoLines == 2
\* entries of one "devices" listing
MaxDevices == 2

\* the lines of one audio status report
MaxStatusLines == 4

(* ------------------------------ values -------------------------------- *)
\* None, as the value of config['last_device'] and of an absent argument
NoMac == 0
Macs == 1..NumMacs

SeqsUpTo(S, n) == UNION {[1..k -> S] : k \in 0..n}

Contains(s, x) == \E i \in DOMAIN s : s[i] = x

RECURSIVE RemoveFirst(_, _)
\* list.remove(x): drops the first occurrence of x
RemoveFirst(s, x) ==
    IF s = <<>> THEN <<>>
    ELSE IF Head(s) = x THEN Tail(s)
    ELSE <<Head(s)>> \o RemoveFirst(Tail(s), x)

(* --------------------- lines the programs print ----------------------- *)
\* A line is its text.  Needles(l) is the set of the literals the code looks
\* for that occur in l as a substring; Token(l) is the identifier that the
\* pattern org\.bluez\.Error\.(\w+) captures in l, "" when it does not match.
ConnectLines ==
    { "Attempting to connect",
      "[CHG] Device Connected: yes",
      "Connection successful",
      "Failed to connect",
      "Failed to connect: org.bluez.Error.Failed",
      "Failed to connect: org.bluez.Error.Failed br-connection-refused" }

\* what the connect invocation may leave on standard error
StderrTexts ==
    { <<>>,
      <<"Failed to connect: org.bluez.Error.Failed br-connection-refused">>,
      <<"Connection successful">>,
      <<"Failed to connect">>,
      <<"[CHG] Device Connected: yes">> }

\* one standard output per branch of connect_device, for the command runs
ConnectSamples ==
    { <<>>,
      <<"[CHG] Device Connected: yes", "Failed to connect: org.bluez.Error.Failed">>,
      <<"Connection successful">>,
      <<"Connection successful", "Failed to connect">>,
      <<"Failed to connect: org.bluez.Error.Failed">>,
      <<"Failed to connect: org.bluez.Error.Failed br-connection-refused">> }

StderrSamples ==
    { <<>>, <<"Failed to connect: org.bluez.Error.Failed br-connection-refused">> }

InfoLines == { "Connected: yes", "Connected: no", "Name: Headphones" }

PairLines ==
    { "Pairing successful",
      "Already Paired",
      "Device not available",
      "Failed to pair",
      "Failed to pair: org.bluez.Error.AuthenticationFailed",
      "Failed to pair: org.bluez.Error.AuthenticationCanceled",
      "Failed to pair: org.bluez.Error.ConnectionAttemptFailed",
      "org.bluez.Error.NotReady" }

\* one standard output per outcome of pair_device, for the command runs
PairSamples ==
    { <<>>,
      <<"Pairing successful">>,
      <<"Already Paired">>,
      <<"Device not available">>,
      <<"Failed to pair: org.bluez.Error.AuthenticationFailed">> }

RemoveTexts == { <<>>, <<"Device has been removed">> }

Needles(l) ==
    CASE l = "[CHG] Device Connected: yes" -> {"Connected: yes"}
      [] l = "Connection successful" -> {"Connection successful"}
      [] l = "Failed to connect" -> {"Failed to connect"}
      [] l = "Failed to connect: org.bluez.Error.Failed" ->
             {"Failed to connect", "org.bluez.Error"}
      [] l = "Failed to connect: org.bluez.Error.Failed br-connection-refused" ->
             {"Failed to connect", "org.bluez.Error", "br-connection-refused"}
      [] l = "Device has been removed" -> {"Device has been removed"}
      [] l = "Pairing successful" -> {"Pairing successful"}
      [] l = "Already Paired" -> {"Already Paired"}
      [] l = "Device not available" -> {"Device not available"}
      [] l = "Failed to pair" -> {"Failed to pair"}
      [] l = "Failed to pair: org.bluez.Error.AuthenticationFailed" ->
             {"Failed to pair", "org.bluez.Error",
              "org.bluez.Error.AuthenticationFailed"}
      [] l = "Failed to pair: org.bluez.Error.AuthenticationCanceled" ->
             {"Failed to pair", "org.bluez.Error",
              "org.bluez.Error.AuthenticationCanceled"}
      [] l = "Failed to pair: org.bluez.Error.ConnectionAttemptFailed" ->
             {"Failed to pair", "org.bluez.Error"}
      [] l = "org.bluez.Error.NotReady" -> {"org.bluez.Error"}
      [] OTHER -> {}

Token(l) ==
    CASE l = "Failed to connect: org.bluez.Error.Failed" -> "Failed"
      [] l = "Failed to connect: org.bluez.Error.Failed br-connection-refused" -> "Failed"
      [] l = "Failed to pair: org.bluez.Error.AuthenticationFailed" -> "AuthenticationFailed"
      [] l = "Failed to pair: org.bluez.Error.AuthenticationCanceled" ->
             "AuthenticationCanceled"
      [] l = "Failed to pair: org.bluez.Error.ConnectionAttemptFailed" ->
             "ConnectionAttemptFailed"
      [] l = "org.bluez.Error.NotReady" -> "NotReady"
      [] OTHER -> ""

\* needle in text, for a text given as its lines (no needle spans a line break)
Has(needle, text) == \E i \in DOMAIN text : needle \in Needles(text[i])

(* ------------------------------ config -------------------------------- *)
DefaultConfig ==
    [last_device |-> NoMac, trusted_devices |-> <<>>, default_profile |-> "a2dp_sink"]

NoFile == [exists |-> FALSE, content |-> DefaultConfig]

load_config(d) == IF d.exists THEN d.content ELSE DefaultConfig

save_config(c) == [exists |-> TRUE, content |-> c]

(* ------------------------- bluetoothctl ------------------------------- *)
\* run_bluetoothctl: on expiry of the timeout the process is killed and what
\* it had printed so far is returned, with the return code of a killed process.
run_bluetoothctl(out, err, rc, timeout_expired) ==
    [returncode |-> IF timeout_expired THEN 0 - 9 ELSE rc,
     stdout |-> out, stderr |-> err]

RECURSIVE InfoKey(_, _, _)
\* get_device_info, for one key: the value of the last "key: value" line,
\* acc when no line has the key.
InfoKey(lines, key, acc) ==
    IF lines = <<>> THEN acc
    ELSE InfoKey(Tail(lines), key,
                 CASE key = "Connected" /\ Head(lines) = "Connected: yes" -> "yes"
                   [] key = "Connected" /\ Head(lines) = "Connected: no" -> "no"
                   [] key = "Name" /\ Head(lines) = "Name: Headphones" -> "Headphones"
                   [] OTHER -> acc)

\* info.get('Connected'), "" standing for an absent key
get_device_info(lines) == [Connected |-> InfoKey(lines, "Connected", "")]

remove_device(r) == Has("Device has been removed", r.stdout) \/ r.returncode = 0

(* --------------------- connect classification ------------------------- *)
MsgRefused ==
    "Connection refused - ensure device is powered on, in pairing mode, and not connected to another device"
MsgConnected == "Connected successfully"
MsgLost ==
    "Connection was established but immediately lost - device may have rejected the connection"
MsgFailed == "Connection failed"
MsgNoResponse == "Connection failed - no response from device"

\* variant: the refusal is looked for on standard output only
connection_refused_stdout_only(out, err) == Has("br-connection-refused", out)

connection_refused(out, err) ==
    Has("br-connection-refused", out) \/ Has("br-connection-refused", err)
connected_yes(out) == \E i \in DOMAIN out : "Connected: yes" \in Needles(out[i])
connection_failed(out) == \E i \in DOMAIN out : "Failed to connect" \in Needles(out[i])
connection_successful(out) == Has("Connection successful", out)

RECURSIVE error_msg(_)
\* the first line of stdout that contains "org.bluez.Error", else the default
error_msg(out) ==
    IF out = <<>> THEN MsgFailed
    ELSE IF "org.bluez.Error" \in Needles(Head(out)) THEN Head(out)
    ELSE error_msg(Tail(out))

\* variant: a transcript that reports both the connection and the failure is
\* taken as a failure, without asking the device
ConnectBranch_no_tiebreak(out, err) ==
    IF connection_refused(out, err) THEN "refused"
    ELSE IF connection_successful(out) /\ ~connection_failed(out) THEN "successful"
    ELSE IF Has("Failed to connect", out) THEN "failed"
    ELSE "silent"

\* variant: "Connection successful" is believed whatever else was printed
ConnectBranch_trusts_success(out, err) ==
    IF connection_refused(out, err) THEN "refused"
    ELSE IF connected_yes(out) /\ connection_failed(out) THEN "contradictory"
    ELSE IF connection_successful(out) THEN "successful"
    ELSE IF Has("Failed to connect", out) THEN "failed"
    ELSE "silent"

\* variant: a transcript without any signal is taken as a failure
ConnectBranch_silent_fails(out, err) ==
    IF connection_refused(out, err) THEN "refused"
    ELSE IF connected_yes(out) /\ connection_failed(out) THEN "contradictory"
    ELSE IF connection_successful(out) /\ ~connection_failed(out) THEN "successful"
    ELSE "failed"

\* which branch of connect_device a transcript selects
ConnectBranch(out, err) ==
    IF connection_refused(out, err) THEN "refused"
    ELSE IF connected_yes(out) /\ connection_failed(out) THEN "contradictory"
    ELSE IF connection_successful(out) /\ ~connection_failed(out) THEN "successful"
    ELSE IF Has("Failed to connect", out) THEN "failed"
    ELSE "silent"

NoResult == [success |-> FALSE, message |-> ""]
Result(s, m) == [success |-> s, message |-> m]

(* ----------------------- pair classification -------------------------- *)
MsgPaired == "Pairing successful"
MsgAlreadyPaired == "Device already paired"
MsgNotFound == "Device not found - make sure it's in pairing mode and in range"
MsgAuthFailed == "Authentication failed - check PIN or try again"
MsgAuthCanceled == "Pairing cancelled on device"
MsgPairFailed == "Pairing failed"
MsgPairUnknown == "Pairing failed - unknown error"

RECURSIVE error_match_last(_)
\* variant: the rightmost match instead of the leftmost
error_match_last(out) ==
    IF out = <<>> THEN ""
    ELSE IF Token(out[Len(out)]) # "" THEN Token(out[Len(out)])
    ELSE error_match_last(SubSeq(out, 1, Len(out) - 1))

RECURSIVE error_match(_)
\* re.search(r'org\.bluez\.Error\.(\w+)', stdout).group(1): the leftmost match,
\* "" when there is none
error_match(out) ==
    IF out = <<>> THEN ""
    ELSE IF Token(Head(out)) # "" THEN Token(Head(out))
    ELSE error_match(Tail(out))

\* variant: the failure literals are looked for before the success literals
pair_device_failure_first(out) ==
    IF Has("Device not available", out) THEN Result(FALSE, MsgNotFound)
    ELSE IF Has("Failed to pair", out)
    THEN LET error_type == error_match(out)
         IN IF error_type # ""
            THEN IF error_type = "AuthenticationFailed"
                 THEN Result(FALSE, MsgAuthFailed)
                 ELSE IF error_type = "AuthenticationCanceled"
                 THEN Result(FALSE, MsgAuthCanceled)
                 ELSE Result(FALSE, "Pairing failed: " \o error_type)
            ELSE Result(FALSE, MsgPairFailed)
    ELSE IF Has("Pairing successful", out) THEN Result(TRUE, MsgPaired)
    ELSE IF Has("Already Paired", out) THEN Result(TRUE, MsgAlreadyPaired)
    ELSE Result(FALSE, MsgPairUnknown)

pair_device(out) ==
    IF Has("Pairing successful", out) THEN Result(TRUE, MsgPaired)
    ELSE IF Has("Already Paired", out) THEN Result(TRUE, MsgAlreadyPaired)
    ELSE IF Has("Device not available", out) THEN Result(FALSE, MsgNotFound)
    ELSE IF Has("Failed to pair", out)
    THEN LET error_type == error_match(out)
         IN IF error_type # ""
            THEN IF error_type = "AuthenticationFailed"
                 THEN Result(FALSE, MsgAuthFailed)
                 ELSE IF error_type = "AuthenticationCanceled"
                 THEN Result(FALSE, MsgAuthCanceled)
                 ELSE Result(FALSE, "Pairing failed: " \o error_type)
            ELSE Result(FALSE, MsgPairFailed)
    ELSE Result(FALSE, MsgPairUnknown)

(* ------------------------------- audio ------------------------------- *)
\* The lines of `wpctl status`.  The box-drawing characters U+2502, U+251C and
\* U+2500 of the tree are written |, + and -.
StatusLines ==
    { "Audio",
      " +- Sinks:",
      " +- Sources:",
      " |  *   32. Samsung Monitor HDMI [vol: 0.75]",
      " |      45. WH-1000XM4 (Bluetooth) [vol: 0.40]",
      " |  *   45. WH-1000XM4 (Bluetooth) [vol: 0.40]",
      " |      51. bluez_output.AA_BB_CC.1",
      " |" }

\* the reports the poll after a connect sees: no sink yet, the Bluetooth sink
PollSamples ==
    { <<>>,
      <<" +- Sinks:", " |  *   32. Samsung Monitor HDMI [vol: 0.75]",
        " |      45. WH-1000XM4 (Bluetooth) [vol: 0.40]">> }

\* the number of lookups of the poll (lines 351 and 574)
PollAttempts == 5

\* one status report per situation the commands tell apart
StatusSamples ==
    { <<>>,
      <<" +- Sinks:", " |  *   32. Samsung Monitor HDMI [vol: 0.75]", " +- Sources:">>,
      <<" +- Sinks:", " |  *   32. Samsung Monitor HDMI [vol: 0.75]",
        " |      45. WH-1000XM4 (Bluetooth) [vol: 0.40]">>,
      <<" +- Sinks:", " |  *   45. WH-1000XM4 (Bluetooth) [vol: 0.40]">> }

\* the section markers that occur in a line
Markers(l) ==
    CASE l = " +- Sinks:" -> {"Sinks:"}
      [] l = " +- Sources:" -> {"Sources:"}
      [] OTHER -> {}

\* line 264: the stripped line without the characters U+2502, U+251C, U+2514,
\* stripped again
clean_line(l) ==
    CASE l = "Audio" -> "Audio"
      [] l = " +- Sinks:" -> "- Sinks:"
      [] l = " +- Sources:" -> "- Sources:"
      [] l = " |  *   32. Samsung Monitor HDMI [vol: 0.75]" ->
             "*   32. Samsung Monitor HDMI [vol: 0.75]"
      [] l = " |      45. WH-1000XM4 (Bluetooth) [vol: 0.40]" ->
             "45. WH-1000XM4 (Bluetooth) [vol: 0.40]"
      [] l = " |  *   45. WH-1000XM4 (Bluetooth) [vol: 0.40]" ->
             "*   45. WH-1000XM4 (Bluetooth) [vol: 0.40]"
      [] l = " |      51. bluez_output.AA_BB_CC.1" -> "51. bluez_output.AA_BB_CC.1"
      [] OTHER -> ""

NoSink == [id |-> "", name |-> "", default |-> FALSE]

\* lines 267-276: the record the pattern ^(\*)?\s*(\d+)\.\s+(.+?)(?:\s+\[.*\])?$
\* gives for a cleaned line, NoSink when it does not match
sink_match(clean) ==
    CASE clean = "*   32. Samsung Monitor HDMI [vol: 0.75]" ->
             [id |-> "32", name |-> "Samsung Monitor HDMI", default |-> TRUE]
      [] clean = "45. WH-1000XM4 (Bluetooth) [vol: 0.40]" ->
             [id |-> "45", name |-> "WH-1000XM4 (Bluetooth)", default |-> FALSE]
      [] clean = "*   45. WH-1000XM4 (Bluetooth) [vol: 0.40]" ->
             [id |-> "45", name |-> "WH-1000XM4 (Bluetooth)", default |-> TRUE]
      [] clean = "51. bluez_output.AA_BB_CC.1" ->
             [id |-> "51", name |-> "bluez_output.AA_BB_CC.1", default |-> FALSE]
      [] OTHER -> NoSink

RECURSIVE parse_sinks(_, _, _)
\* lines 252-277: the loop over the lines of the report
parse_sinks(lines, in_sinks, sinks) ==
    IF lines = <<>> THEN sinks
    ELSE LET line == Head(lines)
             rest == Tail(lines)
         IN IF "Sinks:" \in Markers(line) THEN parse_sinks(rest, TRUE, sinks)
            ELSE IF "Sources:" \in Markers(line) THEN parse_sinks(rest, FALSE, sinks)
            ELSE IF in_sinks /\ clean_line(line) # ""
                         /\ sink_match(clean_line(line)) # NoSink
            THEN parse_sinks(rest, in_sinks, Append(sinks, sink_match(clean_line(line))))
            ELSE parse_sinks(rest, in_sinks, sinks)

\* how a run of wpctl ends: it ran and exited 0 ("ok"), it ran and exited
\* non-zero (CalledProcessError, "error"), or the program is not there
\* (FileNotFoundError, "missing")
WpctlOutcomes == {"ok", "error", "missing"}

\* lines 242-279: the sinks of a status query; only CalledProcessError is
\* caught, any other exception leaves get_sinks
get_sinks(outcome, lines) ==
    [raised |-> outcome = "missing",
     sinks |-> IF outcome = "ok" THEN parse_sinks(lines, FALSE, <<>>) ELSE <<>>]

\* str.lower of a sink name
lower(name) ==
    CASE name = "Samsung Monitor HDMI" -> "samsung monitor hdmi"
      [] name = "WH-1000XM4 (Bluetooth)" -> "wh-1000xm4 (bluetooth)"
      [] name = "bluez_output.AA_BB_CC.1" -> "bluez_output.aa_bb_cc.1"
      [] OTHER -> name

\* the keywords that occur in a text
Keywords(text) ==
    CASE text = "wh-1000xm4 (bluetooth)" -> {"bluetooth"}
      [] text = "bluez_output.aa_bb_cc.1" -> {"bluez"}
      [] text = "bluez_output.AA_BB_CC.1" -> {"bluez"}
      [] OTHER -> {}

\* line 296
is_bluetooth(sink) ==
    "bluetooth" \in Keywords(lower(sink.name)) \/ "bluez" \in Keywords(lower(sink.name))

\* variant: the last Bluetooth sink of the list is taken
last_bluetooth(sinks) ==
    LET I == {i \in DOMAIN sinks : is_bluetooth(sinks[i])}
    IN IF I = {} THEN NoSink ELSE sinks[CHOOSE i \in I : \A j \in I : j <= i]

RECURSIVE first_bluetooth(_)
\* lines 295-299: the first sink with a Bluetooth name, NoSink for None
first_bluetooth(sinks) ==
    IF sinks = <<>> THEN NoSink
    ELSE IF is_bluetooth(Head(sinks)) THEN Head(sinks)
    ELSE first_bluetooth(Tail(sinks))

\* lines 293-299
find_bluetooth_sink(outcome, lines) ==
    [raised |-> get_sinks(outcome, lines).raised,
     sink |-> first_bluetooth(get_sinks(outcome, lines).sinks)]

\* lines 281-291: True when the switch ran and exited 0; CalledProcessError is
\* caught, any other exception leaves set_default_sink
set_default_sink(outcome) ==
    [raised |-> outcome = "missing", switched |-> outcome = "ok"]

(* ------------------------------- state -------------------------------- *)
VARIABLES
    disk,        \* the config file: [exists, content]
    config,      \* BluetoothManager.config of the running command
    pc,          \* control position; "idle" between two commands
    cmd,         \* the command whose code called connect_device
    mac,         \* the device address the running operation is about
    stdout,      \* standard output of the connect invocation
    stderr,      \* standard error of the connect invocation
    expired,     \* the connect invocation hit its timeout
    requeried,   \* connect_device has re-queried the device info
    info,        \* the re-queried device info
    result,      \* what connect_device / pair_device returned
    pair_stdout, \* standard output of the pair invocation
    pre,         \* config and disk when the running operation was entered
                 \* (between two commands: as they are)
    succeeded,   \* the macs for which connect_device has returned success
    ret,         \* return value of the last command (exit code 0 iff TRUE)
    status_lines,\* standard output of the last audio status query
    sinks,       \* what the last get_sinks of the running command returned
    bt_sink,     \* what the last find_bluetooth_sink returned (NoSink: None)
    lookups,     \* find_bluetooth_sink calls of the running poll
    sink_id,     \* switch_sink: the id to switch to
    set_ids,     \* the ids set_default_sink was called with, after the last parse
    switched     \* what the last set_default_sink returned

\* the audio variables
audio == <<status_lines, sinks, bt_sink, lookups, sink_id, set_ids, switched>>

vars == <<disk, config, pc, cmd, mac, stdout, stderr, expired, requeried, info,
          result, pair_stdout, pre, succeeded, ret, audio>>

NoInfo == [Connected |-> ""]

Init ==
    /\ disk = NoFile
    /\ config = DefaultConfig
    /\ pc = "idle"
    /\ cmd = "none"
    /\ mac = NoMac
    /\ stdout = <<>>
    /\ stderr = <<>>
    /\ expired = FALSE
    /\ requeried = FALSE
    /\ info = NoInfo
    /\ result = NoResult
    /\ pair_stdout = <<>>
    /\ pre = [config |-> DefaultConfig, disk |-> NoFile]
    /\ succeeded = {}
    /\ ret = FALSE
    /\ status_lines = <<>>
    /\ sinks = <<>>
    /\ bt_sink = NoSink
    /\ lookups = 0
    /\ sink_id = ""
    /\ set_ids = <<>>
    /\ switched = FALSE

\* the per-call variables of connect_device and pair_device, as on entry
Fresh ==
    /\ stdout' = <<>>
    /\ stderr' = <<>>
    /\ expired' = FALSE
    /\ requeried' = FALSE
    /\ info' = NoInfo
    /\ result' = NoResult
    /\ pair_stdout' = <<>>

\* the audio variables, as when a command starts
Quiet ==
    /\ status_lines' = <<>>
    /\ sinks' = <<>>
    /\ bt_sink' = NoSink
    /\ lookups' = 0
    /\ sink_id' = ""
    /\ set_ids' = <<>>
    /\ switched' = FALSE

\* a command ends: the process exits with code 0 iff r
Exit(r) ==
    /\ pc' = "idle"
    /\ cmd' = "none"
    /\ mac' = NoMac
    /\ ret' = r
    /\ Fresh
    /\ Quiet

\* a command whose config is cfg ends without having touched the config
Leave(r, cfg) ==
    /\ Exit(r)
    /\ config' = cfg
    /\ pre' = [config |-> cfg, disk |-> disk]
    /\ UNCHANGED <<disk, succeeded>>

\* connect_device(m) is entered by the code of command c, whose config is cfg
Enter_connect_device(c, m, cfg) ==
    /\ pc' = "cd_trust"
    /\ cmd' = c
    /\ mac' = m
    /\ config' = cfg
    /\ pre' = [config |-> cfg, disk |-> disk]
    /\ Fresh
    /\ Quiet
    /\ UNCHANGED <<disk, succeeded, ret>>

(* --------------------------- connect_device --------------------------- *)
\* variant: the device is recorded as the last device when it is trusted
connect_device_trust_sets_last ==
    /\ pc = "cd_trust"
    /\ pc' = "cd_add_trusted"
    /\ config' = [config EXCEPT !.last_device = mac]
    /\ UNCHANGED <<disk, cmd, mac, stdout, stderr, expired, requeried,
                   info, result, pair_stdout, pre, succeeded, ret, audio>>

\* line 88: trust <mac> (its output is not looked at)
connect_device_trust ==
    /\ pc = "cd_trust"
    /\ pc' = "cd_add_trusted"
    /\ UNCHANGED <<disk, config, cmd, mac, stdout, stderr, expired, requeried,
                   info, result, pair_stdout, pre, succeeded, ret, audio>>

\* variant: the mac is appended without looking whether it is there
connect_device_add_trusted_always ==
    /\ pc = "cd_add_trusted"
    /\ config' = [config EXCEPT !.trusted_devices = Append(@, mac)]
    /\ pc' = "cd_save_trusted"
    /\ UNCHANGED <<disk, cmd, mac, stdout, stderr, expired, requeried, info,
                   result, pair_stdout, pre, succeeded, ret, audio>>

\* lines 91-92
connect_device_add_trusted ==
    /\ pc = "cd_add_trusted"
    /\ IF ~Contains(config.trusted_devices, mac)
       THEN /\ config' = [config EXCEPT !.trusted_devices = Append(@, mac)]
            /\ pc' = "cd_save_trusted"
       ELSE /\ config' = config
            /\ pc' = "cd_connect"
    /\ UNCHANGED <<disk, cmd, mac, stdout, stderr, expired, requeried, info,
                   result, pair_stdout, pre, succeeded, ret, audio>>

\* variant: the new trusted device is not written back
connect_device_save_trusted_skipped ==
    /\ pc = "cd_save_trusted"
    /\ pc' = "cd_connect"
    /\ UNCHANGED <<disk, config, cmd, mac, stdout, stderr, expired, requeried, info,
                   result, pair_stdout, pre, succeeded, ret, audio>>

\* line 93
connect_device_save_trusted ==
    /\ pc = "cd_save_trusted"
    /\ disk' = save_config(config)
    /\ pc' = "cd_connect"
    /\ UNCHANGED <<config, cmd, mac, stdout, stderr, expired, requeried, info,
                   result, pair_stdout, pre, succeeded, ret, audio>>

\* lines 96-149: connect <mac>, and the branches that need no re-query
connect_device_connect(Outs, Errs) ==
    /\ pc = "cd_connect"
    /\ \E out \in Outs, err \in Errs, rc \in {0, 1}, timeout_expired \in BOOLEAN :
          LET r == run_bluetoothctl(out, err, rc, timeout_expired)
              b == ConnectBranch(r.stdout, r.stderr)
          IN /\ stdout' = r.stdout
             /\ stderr' = r.stderr
             /\ expired' = timeout_expired
             /\ CASE b = "refused" ->
                       /\ result' = Result(FALSE, MsgRefused)
                       /\ pc' = "cd_return"
                  [] b = "failed" ->
                       /\ result' = Result(FALSE, error_msg(r.stdout))
                       /\ pc' = "cd_return"
                  [] b = "successful" ->
                       /\ result' = result
                       /\ pc' = "cd_commit"
                  [] OTHER ->
                       /\ result' = result
                       /\ pc' = "cd_requery"
    /\ UNCHANGED <<disk, config, cmd, mac, requeried, info, pair_stdout, pre,
                   succeeded, ret, audio>>

\* variant: the last device is recorded before the answer is looked at
connect_device_requery_commits_first ==
    /\ pc = "cd_requery"
    /\ \E lines \in SeqsUpTo(InfoLines, MaxInfoLines) :
          /\ info' = get_device_info(lines)
          /\ requeried' = TRUE
          /\ config' = [config EXCEPT !.last_device = mac]
          /\ disk' = save_config([config EXCEPT !.last_device = mac])
          /\ IF get_device_info(lines).Connected = "yes"
             THEN /\ pc' = "cd_commit"
                  /\ result' = result
             ELSE /\ pc' = "cd_return"
                  /\ result' = Result(FALSE,
                        IF ConnectBranch(stdout, stderr) = "contradictory"
                        THEN MsgLost ELSE MsgNoResponse)
    /\ UNCHANGED <<cmd, mac, stdout, stderr, expired, pair_stdout,
                   pre, succeeded, ret, audio>>

\* lines 115-117, 125 and 153-155, 162: the live re-query
connect_device_requery ==
    /\ pc = "cd_requery"
    /\ \E lines \in SeqsUpTo(InfoLines, MaxInfoLines) :
          /\ info' = get_device_info(lines)
          /\ requeried' = TRUE
          /\ IF get_device_info(lines).Connected = "yes"
             THEN /\ pc' = "cd_commit"
                  /\ result' = result
             ELSE /\ pc' = "cd_return"
                  /\ result' = Result(FALSE,
                        IF ConnectBranch(stdout, stderr) = "contradictory"
                        THEN MsgLost ELSE MsgNoResponse)
    /\ UNCHANGED <<disk, config, cmd, mac, stdout, stderr, expired, pair_stdout,
                   pre, succeeded, ret, audio>>

\* lines 119, 130, 156
connect_device_commit ==
    /\ pc = "cd_commit"
    /\ config' = [config EXCEPT !.last_device = mac]
    /\ pc' = "cd_save_last"
    /\ UNCHANGED <<disk, cmd, mac, stdout, stderr, expired, requeried, info,
                   result, pair_stdout, pre, succeeded, ret, audio>>

\* variant: success is returned without writing the config back
connect_device_save_last_skipped ==
    /\ pc = "cd_save_last"
    /\ result' = Result(TRUE, MsgConnected)
    /\ pc' = "cd_return"
    /\ UNCHANGED <<disk, config, cmd, mac, stdout, stderr, expired, requeried, info,
                   pair_stdout, pre, succeeded, ret, audio>>

\* lines 120-123, 131-139, 157-160 (set_audio_profile does nothing)
connect_device_save_last ==
    /\ pc = "cd_save_last"
    /\ disk' = save_config(config)
    /\ result' = Result(TRUE, MsgConnected)
    /\ pc' = "cd_return"
    /\ UNCHANGED <<config, cmd, mac, stdout, stderr, expired, requeried, info,
                   pair_stdout, pre, succeeded, ret, audio>>

\* connect_device returns: its caller goes on and exits with r
Return_connect_device(r) ==
    /\ pc = "cd_return"
    /\ succeeded' = IF result.success THEN succeeded \cup {mac} ELSE succeeded
    /\ Exit(r)
    /\ pre' = [config |-> config, disk |-> disk]
    /\ UNCHANGED <<disk, config>>

(* ------------------------------ connect ------------------------------- *)
RECURSIVE first_match(_, _)
\* the first listed device whose name contains device_name; a device's name
\* is taken to contain exactly the argument that names its mac
first_match(devices, device_name) ==
    IF devices = <<>> THEN NoMac
    ELSE IF Head(devices) = device_name THEN Head(devices)
    ELSE first_match(Tail(devices), device_name)

\* the device the connect command picks (lines 318-335); NoMac when none
target_device(devices, device_name, last_device) ==
    IF device_name # NoMac
    THEN first_match(devices, device_name)
    ELSE IF last_device # NoMac /\ Contains(devices, last_device) THEN last_device
    ELSE IF devices # <<>> THEN devices[1]
    ELSE NoMac

\* Blueteeth.connect up to the call of connect_device (lines 309-343), run by
\* command c with config cfg
Blueteeth_connect(c, cfg, device_names) ==
    \E devices \in SeqsUpTo(Macs, MaxDevices), device_name \in device_names :
       LET t == target_device(devices, device_name, cfg.last_device)
       IN IF devices = <<>> \/ t = NoMac
          THEN Leave(FALSE, cfg)
          ELSE Enter_connect_device(c, t, cfg)

\* blueteeth connect [device]
cli_connect ==
    /\ pc = "idle"
    /\ Blueteeth_connect("connect", load_config(disk), 0..(NumMacs + 1))

\* connect_device returns to Blueteeth.connect (lines 343-369)
\* enhanced_fix returns what connect() returns (lines 725, 734, 752)
fix_connect ==
    /\ pc = "fx_connect"
    /\ Blueteeth_connect("connect", config, {NoMac})

\* connect_device has returned success: the caller waits for the audio sink
\* (lines 345-350 and 568-573)
Start_audio ==
    /\ pc' = "au_poll"
    /\ succeeded' = succeeded \cup {mac}
    /\ pre' = [config |-> config, disk |-> disk]
    /\ UNCHANGED <<disk, config, cmd, mac, stdout, stderr, expired, requeried, info,
                   result, pair_stdout, ret, audio>>

connect_return ==
    /\ cmd = "connect"
    /\ pc = "cd_return"
    /\ IF result.success THEN Start_audio ELSE Return_connect_device(FALSE)

(* ------------------------------- pair --------------------------------- *)
\* pair_new_device up to the call of pair_device (lines 489-556), with config
\* cfg: the new devices are the scanned ones that match the name and are not
\* paired yet; choice 0 is a declined confirmation or 'c' at the prompt
new_devices(scanned, paired_macs, device_name) ==
    LET Named(d) == device_name = NoMac \/ d = device_name
        Unpaired(d) == d \notin paired_macs
    IN SelectSeq(SelectSeq(scanned, Named), Unpaired)

Blueteeth_pair_new_device(cfg, device_names) ==
    \/ /\ \E in_pairing_mode \in BOOLEAN, found \in SeqsUpTo(Macs, MaxDevices),
             choice \in 0..MaxDevices :
             ~in_pairing_mode \/ found = <<>> \/ choice = 0
       /\ Leave(FALSE, cfg)
    \/ \E scanned \in SeqsUpTo(Macs, MaxDevices), paired_macs \in SUBSET Macs,
          device_name \in device_names :
          \E choice \in DOMAIN new_devices(scanned, paired_macs, device_name) :
             /\ pc' = "pn_pair"
             /\ cmd' = "pair"
             /\ mac' = new_devices(scanned, paired_macs, device_name)[choice]
             /\ config' = cfg
             /\ Fresh
             /\ UNCHANGED <<disk, pre, succeeded, ret, audio>>

\* blueteeth pair [device]
cli_pair ==
    /\ pc = "idle"
    /\ Blueteeth_pair_new_device(load_config(disk), 0..(NumMacs + 1))

\* enhanced_fix returns what pair_new_device() returns (line 738)
fix_pair ==
    /\ pc = "fx_pair"
    /\ Blueteeth_pair_new_device(config, {NoMac})

\* line 556: pair_device
pair_new_device_pair(Outs) ==
    /\ pc = "pn_pair"
    /\ \E out \in Outs, rc \in {0, 1}, timeout_expired \in BOOLEAN :
          LET r == run_bluetoothctl(out, <<>>, rc, timeout_expired)
          IN /\ pair_stdout' = r.stdout
             /\ result' = pair_device(r.stdout)
    /\ pc' = "pn_paired"
    /\ UNCHANGED <<disk, config, cmd, mac, stdout, stderr, expired, requeried,
                   info, pre, succeeded, ret, audio>>

\* lines 558-566 and 596-598: trust and connect_device, or give up
pair_new_device_paired ==
    /\ pc = "pn_paired"
    /\ IF result.success
       THEN Enter_connect_device("pair", mac, config)
       ELSE Leave(FALSE, config)

\* connect_device returns to pair_new_device (lines 566-595)
pair_return ==
    /\ cmd = "pair"
    /\ pc = "cd_return"
    /\ IF result.success THEN Start_audio ELSE Return_connect_device(TRUE)

(* ------------------------------ remove -------------------------------- *)
\* remove_device_interactive up to the call of remove_device (lines 600-661):
\* the device is the first one the name matches, or the one picked at the
\* prompt; 'c' at the prompt or a declined confirmation ends the command
cli_remove ==
    /\ pc = "idle"
    /\ \/ /\ \E devices \in SeqsUpTo(Macs, MaxDevices),
                device_name \in 0..(NumMacs + 1), confirmed \in BOOLEAN :
                \/ devices = <<>>
                \/ device_name # NoMac /\ first_match(devices, device_name) = NoMac
                \/ ~confirmed
          /\ Leave(FALSE, load_config(disk))
       \/ \E devices \in SeqsUpTo(Macs, MaxDevices), device_name \in 0..(NumMacs + 1) :
             \E choice \in DOMAIN devices :
                LET t == IF device_name # NoMac THEN first_match(devices, device_name)
                         ELSE devices[choice]
                IN /\ t # NoMac
                   /\ pc' = "rm_remove"
                   /\ cmd' = "remove"
                   /\ mac' = t
                   /\ config' = load_config(disk)
                   /\ pre' = [config |-> load_config(disk), disk |-> disk]
                   /\ Fresh
                   /\ UNCHANGED <<disk, succeeded, ret, audio>>

\* line 665 and 676-678: remove_device
remove_device_interactive_remove ==
    /\ pc = "rm_remove"
    /\ \E out \in RemoveTexts, rc \in {0, 1}, timeout_expired \in BOOLEAN :
          IF remove_device(run_bluetoothctl(out, <<>>, rc, timeout_expired))
          THEN /\ pc' = "rm_clean_trusted"
               /\ UNCHANGED <<disk, config, cmd, mac, stdout, stderr, expired,
                              requeried, info, result, pair_stdout, pre,
                              succeeded, ret, audio>>
          ELSE Leave(FALSE, config)

\* lines 669-670
remove_device_interactive_clean_trusted ==
    /\ pc = "rm_clean_trusted"
    /\ config' = IF Contains(config.trusted_devices, mac)
                 THEN [config EXCEPT !.trusted_devices = RemoveFirst(@, mac)]
                 ELSE config
    /\ pc' = "rm_clean_last"
    /\ UNCHANGED <<disk, cmd, mac, stdout, stderr, expired, requeried, info,
                   result, pair_stdout, pre, succeeded, ret, audio>>

\* variant: last_device is reset whichever device it names
remove_device_interactive_clean_last_always ==
    /\ pc = "rm_clean_last"
    /\ config' = [config EXCEPT !.last_device = NoMac]
    /\ pc' = "rm_save"
    /\ UNCHANGED <<disk, cmd, mac, stdout, stderr, expired, requeried, info,
                   result, pair_stdout, pre, succeeded, ret, audio>>

\* lines 671-672
remove_device_interactive_clean_last ==
    /\ pc = "rm_clean_last"
    /\ config' = IF config.last_device = mac
                 THEN [config EXCEPT !.last_device = NoMac]
                 ELSE config
    /\ pc' = "rm_save"
    /\ UNCHANGED <<disk, cmd, mac, stdout, stderr, expired, requeried, info,
                   result, pair_stdout, pre, succeeded, ret, audio>>

\* line 673
remove_device_interactive_save ==
    /\ pc = "rm_save"
    /\ disk' = save_config(config)
    /\ pc' = "rm_return"
    /\ UNCHANGED <<config, cmd, mac, stdout, stderr, expired, requeried, info,
                   result, pair_stdout, pre, succeeded, ret, audio>>

\* lines 674-675: remove_device_interactive returns True
remove_return ==
    /\ pc = "rm_return"
    /\ Exit(TRUE)
    /\ pre' = [config |-> config, disk |-> disk]
    /\ UNCHANGED <<disk, config, succeeded>>

(* ------------------------- the audio step ----------------------------- *)
\* what an uncaught exception does to the running command: the process ends
\* with a traceback and exit code 1
Crash ==
    /\ Exit(FALSE)
    /\ pre' = [config |-> config, disk |-> disk]
    /\ UNCHANGED <<disk, config, succeeded>>

\* variant: the switch is attempted after the last fruitless lookup as well
audio_poll_switches_anyway(Texts) ==
    /\ pc = "au_poll"
    /\ \E outcome \in WpctlOutcomes :
          \E lines \in (IF outcome = "ok" THEN Texts ELSE {<<>>}) :
             LET f == find_bluetooth_sink(outcome, lines)
             IN IF f.raised
                THEN Crash
                ELSE /\ status_lines' = lines
                     /\ sinks' = get_sinks(outcome, lines).sinks
                     /\ bt_sink' = f.sink
                     /\ lookups' = lookups + 1
                     /\ pc' = IF f.sink # NoSink \/ lookups + 1 >= PollAttempts
                              THEN "au_set" ELSE "au_poll"
                     /\ UNCHANGED <<disk, config, cmd, mac, stdout, stderr, expired,
                                    requeried, info, result, pair_stdout, pre,
                                    succeeded, ret, sink_id, set_ids, switched>>

\* lines 351-355 and 574-578: one round of the poll for the Bluetooth sink
audio_poll(Texts) ==
    /\ pc = "au_poll"
    /\ \E outcome \in WpctlOutcomes :
          \E lines \in (IF outcome = "ok" THEN Texts ELSE {<<>>}) :
             LET f == find_bluetooth_sink(outcome, lines)
             IN IF f.raised
                THEN Crash
                ELSE /\ status_lines' = lines
                     /\ sinks' = get_sinks(outcome, lines).sinks
                     /\ bt_sink' = f.sink
                     /\ lookups' = lookups + 1
                     /\ pc' = IF f.sink # NoSink THEN "au_set"
                              ELSE IF lookups + 1 < PollAttempts THEN "au_poll"
                              ELSE "au_done"
                     /\ UNCHANGED <<disk, config, cmd, mac, stdout, stderr, expired,
                                    requeried, info, result, pair_stdout, pre,
                                    succeeded, ret, sink_id, set_ids, switched>>

\* lines 357-358, 580-581 and 695: set_default_sink(bt_sink['id'])
audio_set_default ==
    /\ pc = "au_set"
    /\ \E outcome \in WpctlOutcomes :
          IF set_default_sink(outcome).raised
          THEN Crash
          ELSE /\ set_ids' = Append(set_ids, bt_sink.id)
               /\ switched' = set_default_sink(outcome).switched
               /\ pc' = "au_done"
               /\ UNCHANGED <<disk, config, cmd, mac, stdout, stderr, expired,
                              requeried, info, result, pair_stdout, pre, succeeded,
                              ret, status_lines, sinks, bt_sink, lookups, sink_id>>

\* lines 359-366 and 582-591: connect and pair_new_device return True
audio_return ==
    /\ pc = "au_done"
    /\ cmd \in {"connect", "pair"}
    /\ Exit(TRUE)
    /\ UNCHANGED <<disk, config, pre, succeeded>>

(* -------------------------------- fix --------------------------------- *)
\* where enhanced_fix goes (lines 688-756): "true"/"false" return at once,
\* "switch" makes the Bluetooth sink the default, "reconnect" calls
\* connect_device on the connected device, "connect" and "pair" return what
\* connect() and pair_new_device() return
troubleshoot(connected_device, advanced) ==
    IF advanced /\ connected_device # NoMac THEN "connect" ELSE "false"

fix_path(connected_device, sink, confirmed, have_devices, advanced) ==
    IF connected_device # NoMac /\ sink # NoSink
    THEN IF ~sink.default
         THEN IF confirmed THEN "switch" ELSE troubleshoot(connected_device, advanced)
         ELSE IF confirmed THEN "reconnect" ELSE "true"
    ELSE IF connected_device # NoMac
    THEN IF confirmed THEN "connect" ELSE troubleshoot(connected_device, advanced)
    ELSE IF have_devices THEN "connect"
    ELSE IF confirmed THEN "pair"
    ELSE troubleshoot(connected_device, advanced)

\* enhanced_fix calls connect() or pair_new_device()
Call_from_fix(p) ==
    /\ pc' = IF p = "connect" THEN "fx_connect" ELSE "fx_pair"
    /\ cmd' = "fix"
    /\ mac' = NoMac
    /\ Fresh
    /\ Quiet
    /\ UNCHANGED <<disk, config, pre, succeeded, ret>>

\* blueteeth fix, lines 685-686: the connected device and the Bluetooth sink
cli_fix(Texts) ==
    /\ pc = "idle"
    /\ \E connected_device \in Macs \cup {NoMac}, outcome \in WpctlOutcomes :
          \E lines \in (IF outcome = "ok" THEN Texts ELSE {<<>>}) :
             LET f == find_bluetooth_sink(outcome, lines)
             IN IF f.raised
                THEN Leave(FALSE, load_config(disk))
                ELSE /\ pc' = "fx_found"
                     /\ cmd' = "fix"
                     /\ mac' = connected_device
                     /\ config' = load_config(disk)
                     /\ status_lines' = lines
                     /\ sinks' = get_sinks(outcome, lines).sinks
                     /\ bt_sink' = f.sink
                     /\ Fresh
                     /\ UNCHANGED <<disk, pre, succeeded, ret, lookups, sink_id,
                                    set_ids, switched>>

\* lines 688-756, up to the next call whose outcome enhanced_fix looks at
enhanced_fix_decide ==
    /\ pc = "fx_found"
    /\ \E confirmed \in BOOLEAN, have_devices \in BOOLEAN, advanced \in BOOLEAN :
          LET p == fix_path(mac, bt_sink, confirmed, have_devices, advanced)
          IN CASE p = "true" -> Leave(TRUE, config)
               [] p = "false" -> Leave(FALSE, config)
               [] p = "reconnect" -> Enter_connect_device("fix", mac, config)
               [] p = "switch" ->
                    /\ pc' = "au_set"
                    /\ UNCHANGED <<disk, config, cmd, mac, stdout, stderr, expired,
                                   requeried, info, result, pair_stdout, pre,
                                   succeeded, ret, audio>>
               [] OTHER -> Call_from_fix(p)

\* lines 695-697 and 740-756: set_default_sink returns to enhanced_fix
fix_switch_return ==
    /\ pc = "au_done"
    /\ cmd = "fix"
    /\ IF switched
       THEN Leave(TRUE, config)
       ELSE \E advanced \in BOOLEAN :
               IF troubleshoot(mac, advanced) = "connect"
               THEN Call_from_fix("connect")
               ELSE Leave(FALSE, config)

\* connect_device returns to enhanced_fix (lines 710-716)
fix_return ==
    /\ cmd = "fix"
    /\ Return_connect_device(TRUE)

(* ------------------------------- switch ------------------------------- *)
\* the sink ids that may be given or typed; "7" is the id of no sink
SinkIds == {"32", "45", "51", "7"}

\* variant: the id is taken as it is
select_sink_unchecked(list, id) ==
    [id |-> id, name |-> "unknown", default |-> FALSE]

RECURSIVE select_sink(_, _)
\* lines 811-815: the first sink of the list with this id, NoSink for None
select_sink(list, id) ==
    IF list = <<>> THEN NoSink
    ELSE IF Head(list).id = id THEN Head(list)
    ELSE select_sink(Tail(list), id)

\* blueteeth switch [sink_id], lines 760-764: the sinks
cli_switch(Texts) ==
    /\ pc = "idle"
    /\ \E outcome \in WpctlOutcomes, arg \in SinkIds \cup {""} :
          \E lines \in (IF outcome = "ok" THEN Texts ELSE {<<>>}) :
             LET g == get_sinks(outcome, lines)
             IN IF g.raised \/ g.sinks = <<>>
                THEN Leave(FALSE, load_config(disk))
                ELSE /\ pc' = "sw_select"
                     /\ cmd' = "switch"
                     /\ config' = load_config(disk)
                     /\ status_lines' = lines
                     /\ sinks' = g.sinks
                     /\ sink_id' = arg
                     /\ Fresh
                     /\ UNCHANGED <<disk, mac, pre, succeeded, ret, bt_sink, lookups,
                                    set_ids, switched>>

\* lines 769-819: the prompt when no id was given ('c' cancels, an id of no
\* sink asks again), and the lookup of the selected sink
switch_sink_select ==
    /\ pc = "sw_select"
    /\ IF sink_id = ""
       THEN \E choice \in SinkIds \cup {"c"} :
               IF choice = "c" THEN Leave(FALSE, config)
               ELSE IF \E k \in DOMAIN sinks : sinks[k].id = choice
               THEN IF select_sink(sinks, choice) = NoSink
                    THEN Leave(FALSE, config)
                    ELSE /\ sink_id' = choice
                         /\ pc' = "sw_set"
                         /\ UNCHANGED <<disk, config, cmd, mac, stdout, stderr,
                                        expired, requeried, info, result,
                                        pair_stdout, pre, succeeded, ret,
                                        status_lines, sinks, bt_sink, lookups,
                                        set_ids, switched>>
               ELSE UNCHANGED vars
       ELSE IF select_sink(sinks, sink_id) = NoSink
            THEN Leave(FALSE, config)
            ELSE /\ pc' = "sw_set"
                 /\ UNCHANGED <<disk, config, cmd, mac, stdout, stderr, expired,
                                requeried, info, result, pair_stdout, pre, succeeded,
                                ret, audio>>

\* line 823: set_default_sink(sink_id)
switch_sink_set_default ==
    /\ pc = "sw_set"
    /\ \E outcome \in WpctlOutcomes :
          IF set_default_sink(outcome).raised
          THEN Crash
          ELSE /\ set_ids' = Append(set_ids, sink_id)
               /\ switched' = set_default_sink(outcome).switched
               /\ pc' = "sw_done"
               /\ UNCHANGED <<disk, config, cmd, mac, stdout, stderr, expired,
                              requeried, info, result, pair_stdout, pre, succeeded,
                              ret, status_lines, sinks, bt_sink, lookups, sink_id>>

\* lines 823-835: switch_sink returns what set_default_sink returned
switch_return ==
    /\ pc = "sw_done"
    /\ Leave(switched, config)

(* --------------------------- specifications --------------------------- *)
\* the commands, one after the other, from the default config
Next ==
    \/ cli_connect
    \/ cli_pair
    \/ cli_remove
    \/ cli_fix(StatusSamples)
    \/ enhanced_fix_decide
    \/ fix_switch_return
    \/ fix_connect
    \/ fix_pair
    \/ cli_switch(StatusSamples)
    \/ switch_sink_select
    \/ switch_sink_set_default
    \/ switch_return
    \/ audio_poll(PollSamples)
    \/ audio_set_default
    \/ audio_return
    \/ connect_device_trust
    \/ connect_device_add_trusted
    \/ connect_device_save_trusted
    \/ connect_device_connect(ConnectSamples, StderrSamples)
    \/ connect_device_requery
    \/ connect_device_commit
    \/ connect_device_save_last
    \/ connect_return
    \/ pair_new_device_pair(PairSamples)
    \/ pair_new_device_paired
    \/ pair_return
    \/ fix_return
    \/ remove_device_interactive_remove
    \/ remove_device_interactive_clean_trusted
    \/ remove_device_interactive_clean_last
    \/ remove_device_interactive_save
    \/ remove_return

Spec == Init /\ [][Next]_vars

\* one call of connect_device, on every transcript within the bounds
InitConnect ==
    \E m \in Macs, known \in BOOLEAN : \E last_device \in {NoMac, m} :
       LET cfg == IF known
                  THEN [DefaultConfig EXCEPT !.trusted_devices = <<m>>,
                                             !.last_device = last_device]
                  ELSE DefaultConfig
       IN /\ disk = IF known THEN save_config(cfg) ELSE NoFile
          /\ config = cfg
          /\ pc = "cd_trust"
          /\ cmd = "connect"
          /\ mac = m
          /\ stdout = <<>>
          /\ stderr = <<>>
          /\ expired = FALSE
          /\ requeried = FALSE
          /\ info = NoInfo
          /\ result = NoResult
          /\ pair_stdout = <<>>
          /\ pre = [config |-> cfg, disk |-> IF known THEN save_config(cfg) ELSE NoFile]
          /\ succeeded = {cfg.last_device} \ {NoMac}
          /\ ret = FALSE
          /\ status_lines = <<>>
          /\ sinks = <<>>
          /\ bt_sink = NoSink
          /\ lookups = 0
          /\ sink_id = ""
          /\ set_ids = <<>>
          /\ switched = FALSE

NextConnect ==
    \/ connect_device_trust
    \/ connect_device_add_trusted
    \/ connect_device_save_trusted
    \/ connect_device_connect(SeqsUpTo(ConnectLines, MaxLines), StderrTexts)
    \/ connect_device_requery
    \/ connect_device_commit
    \/ connect_device_save_last
    \/ connect_return

SpecConnect == InitConnect /\ [][NextConnect]_vars

\* one call of pair_device, on every transcript within the bounds
NextPair ==
    \/ cli_pair
    \/ pair_new_device_pair(SeqsUpTo(PairLines, MaxPairLines))
    \/ pair_new_device_paired

SpecPair == Init /\ [][NextPair]_vars

\* the audio status query of fix, on every report within the bounds
NextSinks ==
    \/ cli_fix(SeqsUpTo(StatusLines, MaxStatusLines))
    \/ enhanced_fix_decide
    \/ audio_set_default
    \/ fix_switch_return

SpecSinks == Init /\ [][NextSinks]_vars

\* the commands, from the default config or from any config file that lists
\* no device twice
DupFreeSeqs(S) ==
    {q \in SeqsUpTo(S, Cardinality(S)) : \A i, j \in DOMAIN q : q[i] = q[j] => i = j}

InitLoaded ==
    /\ \E trusted \in DupFreeSeqs(Macs), last_device \in Macs \cup {NoMac},
          exists \in BOOLEAN :
          disk = IF exists
                 THEN save_config([DefaultConfig EXCEPT !.trusted_devices = trusted,
                                                        !.last_device = last_device])
                 ELSE NoFile
    /\ config = load_config(disk)
    /\ pc = "idle"
    /\ cmd = "none"
    /\ mac = NoMac
    /\ stdout = <<>>
    /\ stderr = <<>>
    /\ expired = FALSE
    /\ requeried = FALSE
    /\ info = NoInfo
    /\ result = NoResult
    /\ pair_stdout = <<>>
    /\ pre = [config |-> config, disk |-> disk]
    /\ succeeded = {}
    /\ ret = FALSE
    /\ status_lines = <<>>
    /\ sinks = <<>>
    /\ bt_sink = NoSink
    /\ lookups = 0
    /\ sink_id = ""
    /\ set_ids = <<>>
    /\ switched = FALSE

SpecLoaded == InitLoaded /\ [][Next]_vars

(* ------------------------------ properties ---------------------------- *)
\* the signals of the connect transcript in hand
Refused ==
    \/ \E i \in DOMAIN stdout : "br-connection-refused" \in Needles(stdout[i])
    \/ \E i \in DOMAIN stderr : "br-connection-refused" \in Needles(stderr[i])
SaysConnected == \E i \in DOMAIN stdout : "Connected: yes" \in Needles(stdout[i])
SaysFailed == \E i \in DOMAIN stdout : "Failed to connect" \in Needles(stdout[i])
SaysSuccessful == \E i \in DOMAIN stdout : "Connection successful" \in Needles(stdout[i])

\* the connect invocation of the running connect_device call has been made
Connected_invoked == pc \in {"cd_requery", "cd_commit", "cd_save_last", "cd_return"}

\* connect_device is about to return
Returning == pc = "cd_return"

\* the re-query was made and its answer decided the outcome
RequeryDecided == requeried /\ (result.success <=> info.Connected = "yes")

\* C1: a connect transcript with "br-connection-refused" on standard output or
\* on standard error ends in FAIL with the refusal message, whatever else it
\* carries, and no re-query is made.
C1_RefusedFails ==
    (Connected_invoked /\ Refused) =>
        /\ Returning
        /\ result = Result(FALSE, MsgRefused)
        /\ ~requeried

\* C1 witness: the refusal is on standard error only, while standard output
\* reports "Connected: yes" and "Connection successful".
C1_Witness ==
    /\ Returning
    /\ \E i \in DOMAIN stderr : "br-connection-refused" \in Needles(stderr[i])
    /\ \A i \in DOMAIN stdout : "br-connection-refused" \notin Needles(stdout[i])
    /\ SaysConnected
    /\ SaysSuccessful
    /\ result.message = MsgRefused

\* C2: whenever connect_device returns success, on whichever branch, the
\* in-memory last_device is the connected mac and the config file holds the
\* same config.
C2_SuccessCommits ==
    (Returning /\ result.success) =>
        /\ config.last_device = mac
        /\ disk.exists
        /\ disk.content.last_device = mac
        /\ disk.content = config

\* C2 witness: success on the contradictory branch, for a device that was not
\* the last device before.
C2_Witness ==
    /\ Returning
    /\ result.success
    /\ SaysConnected /\ SaysFailed
    /\ requeried
    /\ pre.config.last_device # mac

\* C3 as stated: not refused, and either a success text ("Connected: yes" or
\* "Connection successful") together with "Failed to connect", or none of the
\* three: the re-query is made and decides.
C3_Original ==
    (Returning /\ ~Refused
       /\ \/ (SaysConnected \/ SaysSuccessful) /\ SaysFailed
          \/ ~SaysConnected /\ ~SaysSuccessful /\ ~SaysFailed) =>
        RequeryDecided

\* C3 amended: not refused, and standard output carries either "Connected: yes"
\* together with "Failed to connect", or none of the three signals: the
\* re-query is made and its answer (SUCCESS iff Connected is yes) decides.
C3_RequeryTiebreak ==
    (Returning /\ ~Refused
       /\ \/ SaysConnected /\ SaysFailed
          \/ ~SaysConnected /\ ~SaysSuccessful /\ ~SaysFailed) =>
        RequeryDecided

\* C3 witness: a contradictory transcript that the re-query turned into a FAIL.
C3_Witness ==
    /\ Returning
    /\ ~Refused
    /\ SaysConnected /\ SaysFailed
    /\ requeried
    /\ info.Connected = "no"
    /\ result = Result(FALSE, MsgLost)

\* C4: a success that does not rest on a re-query answering Connected=yes
\* happens only when standard output has "Connection successful", has no
\* "Failed to connect", and the attempt was not refused.
C4_TextTrustedOnlyUncontradicted ==
    (Returning /\ result.success /\ ~(requeried /\ info.Connected = "yes")) =>
        /\ SaysSuccessful
        /\ ~SaysFailed
        /\ ~Refused

\* C4 witness: a success on the text alone, while standard error carries
\* "Failed to connect".
C4_Witness ==
    /\ Returning
    /\ result.success
    /\ ~requeried
    /\ \E i \in DOMAIN stderr : "Failed to connect" \in Needles(stderr[i])

\* C5 as stated: after a timeout of the connect invocation the re-query is
\* made and decides, with the no-response message on FAIL, for any partial
\* output.
C5_Original ==
    (Returning /\ expired) =>
        /\ RequeryDecided
        /\ (~result.success => result.message = MsgNoResponse)

\* C5 amended: after a timeout the partial output is classified as any
\* transcript is; when it carries no refusal, no "Failed to connect" and no
\* "Connection successful", the re-query is made and decides, with the
\* no-response message on FAIL.
C5_TimeoutInconclusive ==
    (Returning /\ expired /\ ~Refused /\ ~SaysFailed /\ ~SaysSuccessful) =>
        /\ RequeryDecided
        /\ (~result.success => result.message = MsgNoResponse)

\* C5 witness: a timeout with some inconclusive partial output, failed by the
\* re-query.
C5_Witness ==
    /\ Returning
    /\ expired
    /\ stdout # <<>>
    /\ ~Refused /\ ~SaysFailed /\ ~SaysSuccessful
    /\ requeried
    /\ result = Result(FALSE, MsgNoResponse)

\* C6 as stated: a connect attempt that ends in FAIL leaves the config, in
\* memory and in the file, as it was when the attempt began.
C6_Original ==
    (Returning /\ ~result.success) =>
        /\ config = pre.config
        /\ disk = pre.disk

\* C6 amended: a connect attempt that ends in FAIL leaves last_device and
\* default_profile as they were, in memory and in the file; trusted_devices
\* is as it was when the mac was listed, and else has the mac appended, in
\* memory and in the file; a file that needed no change was not written.
C6_FailKeepsLastDevice ==
    (Returning /\ ~result.success) =>
        /\ config.last_device = pre.config.last_device
        /\ config.default_profile = pre.config.default_profile
        /\ config.trusted_devices =
              IF Contains(pre.config.trusted_devices, mac)
              THEN pre.config.trusted_devices
              ELSE Append(pre.config.trusted_devices, mac)
        /\ load_config(disk) = config
        /\ load_config(pre.disk) = pre.config
        /\ (Contains(pre.config.trusted_devices, mac) => disk = pre.disk)

\* C6 witness: a failed attempt on a device that was not trusted, with another
\* device as the last device.
C6_Witness ==
    /\ Returning
    /\ ~result.success
    /\ ~Contains(pre.config.trusted_devices, mac)
    /\ pre.config.last_device \notin {NoMac, mac}

\* the control positions whose step invokes an external command
ExternalPcs ==
    {"idle", "cd_trust", "cd_connect", "cd_requery", "pn_pair", "pn_paired",
     "rm_remove", "fx_found", "fx_connect", "fx_pair", "au_poll", "au_set",
     "sw_set"}

\* C7 as stated: a step that changes the in-memory config, or that invokes an
\* external command, finds every earlier change already written to the file.
C7_Original ==
    [][(config' # config \/ pc \in ExternalPcs) => config = load_config(disk)]_vars

\* C7 amended: in connect_device every single change is written back before
\* the next change and before the next external command; in
\* remove_device_interactive the removal from trusted_devices and the reset
\* of last_device are written back by one save after both; every command
\* ends with the file equal to the in-memory config.
C7_SavedBeforeNext ==
    [][/\ ((config' # config /\ pc # "rm_clean_last") \/ pc \in ExternalPcs)
             => config = load_config(disk)
       /\ (pc = "rm_clean_last" =>
             RemoveFirst(load_config(disk).trusted_devices, mac) = config.trusted_devices)
       /\ (pc' = "idle" => config' = load_config(disk'))]_vars

\* C7 witness: remove has dropped the mac from trusted_devices and is about to
\* reset last_device, with the file still as it was.
C7_Witness ==
    /\ pc = "rm_clean_last"
    /\ config.last_device = mac
    /\ config # load_config(disk)

NoDuplicates(q) == \A i, j \in DOMAIN q : q[i] = q[j] => i = j

\* C8: trusted_devices lists no mac twice, in memory and in the file.
C8_NoDuplicateTrusted ==
    /\ NoDuplicates(config.trusted_devices)
    /\ NoDuplicates(load_config(disk).trusted_devices)

\* C8 witness: a connect attempt on a mac that was already trusted has
\* completed, with two macs trusted.
C8_Witness ==
    /\ Returning
    /\ Contains(pre.config.trusted_devices, mac)
    /\ Len(config.trusted_devices) >= 2

\* C9: between commands last_device is unset or a mac for which connect_device
\* has returned success, in memory and in the file.
C9_LastDeviceWasConnected ==
    pc = "idle" =>
        /\ config.last_device \in succeeded \cup {NoMac}
        /\ load_config(disk).last_device \in succeeded \cup {NoMac}

\* C9 witness: last_device is set after two devices were connected and one of
\* them was removed.
C9_Witness ==
    /\ pc = "idle"
    /\ config.last_device # NoMac
    /\ Cardinality(succeeded) >= 2
    /\ Len(config.trusted_devices) = 1

\* the signals of the pair transcript in hand
SaysFailedToPair ==
    \E i \in DOMAIN pair_stdout : "Failed to pair" \in Needles(pair_stdout[i])
SaysAuthenticationFailed ==
    \E i \in DOMAIN pair_stdout :
       "org.bluez.Error.AuthenticationFailed" \in Needles(pair_stdout[i])
SaysOtherOutcome ==
    \E i \in DOMAIN pair_stdout :
       Needles(pair_stdout[i]) \cap
          {"Pairing successful", "Already Paired", "Device not available"} # {}

\* the first error token of the pair transcript is AuthenticationFailed
FirstTokenAuthenticationFailed ==
    \E i \in DOMAIN pair_stdout :
       /\ Token(pair_stdout[i]) = "AuthenticationFailed"
       /\ \A j \in 1..(i - 1) : Token(pair_stdout[j]) = ""

\* C10 as stated: "Failed to pair" and "org.bluez.Error.AuthenticationFailed"
\* on standard output give FAIL with the PIN guidance, whatever else is there.
C10_Original ==
    (pc = "pn_paired" /\ SaysFailedToPair /\ SaysAuthenticationFailed) =>
        result = Result(FALSE, MsgAuthFailed)

\* C10 amended: "Failed to pair" and "org.bluez.Error.AuthenticationFailed" on
\* standard output give FAIL with the PIN guidance when standard output has
\* none of "Pairing successful", "Already Paired", "Device not available" and
\* its first org.bluez.Error token is exactly AuthenticationFailed; and they
\* never give the generic fallback.
C10_AuthenticationFailedGuidance ==
    (pc = "pn_paired" /\ SaysFailedToPair /\ SaysAuthenticationFailed) =>
        /\ (~SaysOtherOutcome /\ FirstTokenAuthenticationFailed) =>
              result = Result(FALSE, MsgAuthFailed)
        /\ result.message # MsgPairUnknown

\* C10 witness: the PIN guidance, on a transcript that has another error token
\* after the first.
C10_Witness ==
    /\ pc = "pn_paired"
    /\ SaysFailedToPair /\ SaysAuthenticationFailed
    /\ Len(pair_stdout) = 2
    /\ Token(pair_stdout[2]) \notin {"", "AuthenticationFailed"}
    /\ result = Result(FALSE, MsgAuthFailed)

\* the literals of the pair transcript in hand
SaysPairingSuccessful ==
    \E i \in DOMAIN pair_stdout : "Pairing successful" \in Needles(pair_stdout[i])
SaysAlreadyPaired ==
    \E i \in DOMAIN pair_stdout : "Already Paired" \in Needles(pair_stdout[i])
SaysNotAvailable ==
    \E i \in DOMAIN pair_stdout : "Device not available" \in Needles(pair_stdout[i])

\* t is the first org.bluez.Error token of the pair transcript
FirstTokenIs(t) ==
    \E i \in DOMAIN pair_stdout :
       /\ Token(pair_stdout[i]) = t
       /\ t # ""
       /\ \A j \in 1..(i - 1) : Token(pair_stdout[j]) = ""
NoToken == \A i \in DOMAIN pair_stdout : Token(pair_stdout[i]) = ""

\* C11: pair_device classifies the pair transcript by one priority list, first
\* match wins: "Pairing successful" SUCCESS; else "Already Paired" SUCCESS;
\* else "Device not available" FAIL (not found); else "Failed to pair" FAIL
\* with the message of the extracted token (AuthenticationFailed,
\* AuthenticationCanceled, another token, none); else the unknown-error FAIL.
C11_PairPriority ==
    pc = "pn_paired" =>
       /\ SaysPairingSuccessful => result = Result(TRUE, MsgPaired)
       /\ (~SaysPairingSuccessful /\ SaysAlreadyPaired) =>
             result = Result(TRUE, MsgAlreadyPaired)
       /\ (~SaysPairingSuccessful /\ ~SaysAlreadyPaired /\ SaysNotAvailable) =>
             result = Result(FALSE, MsgNotFound)
       /\ (~SaysPairingSuccessful /\ ~SaysAlreadyPaired /\ ~SaysNotAvailable) =>
             IF SaysFailedToPair
             THEN /\ ~result.success
                  /\ FirstTokenIs("AuthenticationFailed") =>
                        result.message = MsgAuthFailed
                  /\ FirstTokenIs("AuthenticationCanceled") =>
                        result.message = MsgAuthCanceled
                  /\ \A t \in {"ConnectionAttemptFailed", "NotReady"} :
                        FirstTokenIs(t) => result.message = "Pairing failed: " \o t
                  /\ NoToken => result.message = MsgPairFailed
             ELSE result = Result(FALSE, MsgPairUnknown)

\* C11 witness: "Already Paired" wins over "Device not available" on the same
\* transcript.
C11_Witness ==
    /\ pc = "pn_paired"
    /\ SaysAlreadyPaired /\ SaysNotAvailable /\ ~SaysPairingSuccessful
    /\ result = Result(TRUE, MsgAlreadyPaired)

\* the status report in hand: line i is after a "Sources:" line, line i holds
\* a record
AfterSources(i) == \E j \in 1..(i - 1) : "Sources:" \in Markers(status_lines[j])
AfterSinks(i) == \E j \in 1..(i - 1) : "Sinks:" \in Markers(status_lines[j])
SinkShaped(i) ==
    /\ Markers(status_lines[i]) = {}
    /\ sink_match(clean_line(status_lines[i])) # NoSink

\* C12 as stated: no line after a line containing "Sources:" is emitted as a
\* sink record: every record of the list is that of a sink-shaped line with no
\* "Sources:" line before it, and there are no more records than such lines.
C12_Original ==
    pc = "fx_found" =>
       /\ \A k \in DOMAIN sinks :
             \E i \in DOMAIN status_lines :
                /\ SinkShaped(i)
                /\ sink_match(clean_line(status_lines[i])) = sinks[k]
                /\ ~AfterSources(i)
       /\ Len(sinks) <= Cardinality({i \in DOMAIN status_lines :
                                       SinkShaped(i) /\ ~AfterSources(i)})

\* the records of the sink list in hand whose lowercased name contains
\* "bluetooth" or "bluez"
BluetoothRecords ==
    {k \in DOMAIN sinks :
        Keywords(lower(sinks[k].name)) \cap {"bluetooth", "bluez"} # {}}

\* C13: find_bluetooth_sink returns the first record of the parsed list whose
\* lowercased name contains "bluetooth" or "bluez", and none exactly when the
\* list has no such record (as when "Sinks:" never appeared, or the status
\* query errored and the list is empty).
C13_FirstBluetoothSink ==
    pc = "fx_found" =>
       /\ bt_sink = NoSink <=> BluetoothRecords = {}
       /\ BluetoothRecords # {} =>
             \E k \in BluetoothRecords :
                /\ bt_sink = sinks[k]
                /\ \A j \in BluetoothRecords : k <= j
       /\ (\A i \in DOMAIN status_lines : "Sinks:" \notin Markers(status_lines[i])) =>
             sinks = <<>> /\ bt_sink = NoSink

\* C13 witness: the list has a sink that is not Bluetooth and then two
\* Bluetooth sinks; the second record of the list is returned.
C13_Witness ==
    /\ pc = "fx_found"
    /\ Len(sinks) = 3
    /\ BluetoothRecords = {2, 3}
    /\ sinks[2] # sinks[3]
    /\ bt_sink = sinks[2]

\* C14 as stated: the connect command exits with code 0 if and only if the
\* connect classification yielded SUCCESS, whatever happens in the audio step
\* (no sink appears, the switch fails, the status query errors, or the audio
\* control program is missing).
C14_Original ==
    [][(cmd = "connect" /\ pc # "idle" /\ pc' = "idle") =>
           (ret' <=> result.success)]_vars

\* C15 as stated: when the reconnect that fix itself performed (connect_device
\* on the connected device) ended in FAIL, the fix command exits with code 1.
C15_Original ==
    [][(cmd = "fix" /\ pc = "cd_return" /\ ~result.success /\ pc' = "idle") =>
           ~ret']_vars

\* C16: the poll for the Bluetooth sink after a successful connect, in the
\* connect command and in the pair flow, makes at most 5 lookups, goes on only
\* while no sink was found, and the default-sink switch is attempted exactly
\* when a lookup found a sink.
C16_BoundedPoll ==
    cmd \in {"connect", "pair"} =>
       /\ lookups <= 5
       /\ Len(set_ids) <= 1
       /\ pc = "au_poll" => (lookups < 5 /\ bt_sink = NoSink /\ set_ids = <<>>)
       /\ pc = "au_set" => (lookups >= 1 /\ bt_sink # NoSink /\ set_ids = <<>>)
       /\ pc = "au_done" =>
             /\ set_ids # <<>> <=> bt_sink # NoSink
             /\ bt_sink = NoSink => lookups = 5

\* C16 witness: in the pair flow the fifth lookup found the sink and the
\* switch was attempted.
C16_Witness ==
    /\ cmd = "pair"
    /\ pc = "au_done"
    /\ lookups = 5
    /\ bt_sink # NoSink
    /\ set_ids = <<bt_sink.id>>

\* remove has cleaned and saved the config: neither the in-memory config nor
\* the file references the mac, and all the rest is as it was
RemovedCleanly ==
    LET Other(d) == d # mac
    IN /\ ~Contains(config.trusted_devices, mac)
       /\ config.last_device # mac
       /\ config.trusted_devices = SelectSeq(pre.config.trusted_devices, Other)
       /\ config.last_device = IF pre.config.last_device = mac
                               THEN NoMac ELSE pre.config.last_device
       /\ config.default_profile = pre.config.default_profile
       /\ disk.exists
       /\ disk.content = config

\* C17: from a config without duplicates, when remove reports success the
\* in-memory config and the file no longer reference the mac, and every other
\* trusted_devices entry and a last_device naming another mac are as they
\* were; when the removal is cancelled or remove_device fails, the config and
\* the file are as they were.
C17_RemoveFrame ==
    [][/\ (pc' = "rm_return" => RemovedCleanly')
       /\ (pc = "rm_return" => (ret' /\ config' = config /\ disk' = disk))
       /\ ((cmd = "remove" /\ pc # "rm_return" /\ pc' = "idle") =>
              (~ret' /\ config' = pre.config /\ disk' = pre.disk))
       /\ ((pc = "idle" /\ pc' = "idle") =>
              (config' = load_config(disk) /\ disk' = disk))]_vars

\* C17 witness: remove has saved the config without the removed device, which
\* was trusted next to another one, the other one being the last device.
C17_Witness ==
    /\ pc = "rm_return"
    /\ Contains(pre.config.trusted_devices, mac)
    /\ Len(pre.config.trusted_devices) = 2
    /\ pre.config.last_device \notin {NoMac, mac}
    /\ config.last_device = pre.config.last_device
    /\ disk.content.trusted_devices = <<pre.config.last_device>>

\* the ids of the records of the sink list in hand
ParsedIds == {sinks[k].id : k \in DOMAIN sinks}

\* the sink found is a Bluetooth record of the sink list in hand
FoundInList ==
    /\ bt_sink # NoSink
    /\ \E k \in BluetoothRecords : sinks[k] = bt_sink

\* every call of set_default_sink so far, and the one about to be made, has
\* an id of the sink list in hand
SetterIdsParsed ==
    /\ \A i \in DOMAIN set_ids : set_ids[i] \in ParsedIds
    /\ pc = "sw_set" => sink_id \in ParsedIds
    /\ pc = "sw_done" => set_ids = <<sink_id>>
    /\ pc = "au_set" => FoundInList
    /\ (pc = "au_done" /\ set_ids # <<>>) => (FoundInList /\ set_ids = <<bt_sink.id>>)

TypeOK ==
    /\ pc \in {"idle", "cd_trust", "cd_add_trusted", "cd_save_trusted", "cd_connect",
               "cd_requery", "cd_commit", "cd_save_last", "cd_return",
               "pn_pair", "pn_paired", "rm_remove", "rm_clean_trusted",
               "rm_clean_last", "rm_save", "rm_return", "fx_found", "fx_connect", "fx_pair",
               "au_poll", "au_set", "au_done", "sw_select", "sw_set", "sw_done"}
    /\ mac \in Macs \cup {NoMac}
====
